---- MODULE Spec2Model ----
(***************************************************************************)
(* lvmeteo: query construction -> transport -> response normalisation ->   *)
(* reshape, modelled from src/lvmeteo/meteodata.py.                        *)
(*                                                                         *)
(* One call of a public operation is a run of the state machine below:     *)
(*   idle --Call_*--> waiting --Transport_*--> process --Process_*--> done *)
(* with every raise ending the run in "done".                              *)
(***************************************************************************)
EXTENDS Integers, Sequences, FiniteSets, TLC

VARIABLES pc, op, args, sql, curl_calls, http_calls, data, raised, outcome

vars == <<pc, op, args, sql, curl_calls, http_calls, data, raised, outcome>>

(***************************************************************************)
(* Bounds of the model.                                                    *)
(***************************************************************************)
\* longest records list a reply carries in the full call machine (Spec)
MaxRecords == 2
\* longest records list handed to the reshaper in SpecPivot
MaxRows == 3
\* longest records list handed to the normaliser in SpecNormalize
MaxNormRecords == 2

(***************************************************************************)
(* Cell values.  A JSON scalar or a pandas cell is a tagged record, so     *)
(* that strings, numbers and the missing-value sentinels can be compared.  *)
(***************************************************************************)
Null == [t |-> "null", s |-> "", n |-> 0]
Str(x) == [t |-> "str", s |-> x, n |-> 0]
Num(k) == [t |-> "num", s |-> "", n |-> k]
NaN == [t |-> "nan", s |-> "", n |-> 0]
NaT == [t |-> "nat", s |-> "", n |-> 0]
\* a pandas Timestamp: n = hours after 2024-01-01T00:00, tz = "" (naive) or "UTC"
Ts(k, tz) == [t |-> "ts", s |-> tz, n |-> k]

IsNull(v) == v.t \in {"null", "nan", "nat"}

(***************************************************************************)
(* Python dicts are sequences of <<key, value>> pairs with unique keys.    *)
(***************************************************************************)
DictKeys(d) == [i \in 1..Len(d) |-> d[i][1]]
DictValues(d) == [i \in 1..Len(d) |-> d[i][2]]
Range(s) == {s[i] : i \in 1..Len(s)}

\* config.py
DATA_COLUMNS ==
    << <<"station_id", "STATION_ID">>, <<"param", "ABBREVIATION">>,
       <<"date", "DATETIME">>, <<"value", "VALUE">> >>

\* the sequence s without repeated elements, first occurrences kept in order
RECURSIVE Dedup(_)
Dedup(s) ==
    IF s = <<>> THEN <<>>
    ELSE LET front == Dedup(SubSeq(s, 1, Len(s) - 1))
             last == s[Len(s)]
         IN IF last \in Range(front) THEN front ELSE Append(front, last)

(***************************************************************************)
(* Response normaliser: records_to_dataframe_raw / records_to_dataframe.   *)
(* A DataFrame is [cols: sequence of column names, rows: sequence of       *)
(* functions from column name to cell].                                    *)
(***************************************************************************)
EmptyFrame == [cols |-> <<>>, rows |-> <<>>]

\* field_dict = {v['id']: v['type'] for v in fields}; field_dict.get(c, 'text')
FieldType(fields, c) ==
    LET hits == {i \in 1..Len(fields) : fields[i].id = c}
    IN IF hits = {} THEN "text"
       ELSE fields[CHOOSE i \in hits : \A j \in hits : j <= i].type

\* str(x) of the numbers the model uses
NumText(k) ==
    CASE k = 5 -> "5"
      [] k = 6 -> "6"
      [] OTHER -> "0"

\* float(x) of the strings the model uses; anything else does not parse
ParseNum(x) ==
    CASE x = "5" -> Num(5)
      [] x = "6" -> Num(6)
      [] OTHER -> NaN

\* ISO-8601 parsing of the timestamps the model uses; anything else is NaT
ParseIso(x) ==
    CASE x = "2024-01-01T00:00:00" -> Ts(0, "")
      [] x = "2024-01-01T06:00:00" -> Ts(6, "")
      [] x = "2024-01-01T00:00:00Z" -> Ts(0, "UTC")
      [] x = "2024-01-01T06:00:00Z" -> Ts(6, "UTC")
      [] OTHER -> NaT

\* df[c].astype('str'): str() of every cell.  pandas < 3 turns a missing
\* cell into the text 'None' / 'nan'; pandas >= 3 ('str' is the string
\* dtype there) keeps it missing.  setup.py admits both ("pandas>=1.0.0"),
\* so keepna is chosen by the build.
AsTypeStr(v, keepna) ==
    CASE v.t = "str" -> v
      [] v.t = "num" -> Str(NumText(v.n))
      [] v.t = "null" -> IF keepna THEN NaN ELSE Str("None")
      [] v.t = "nan" -> IF keepna THEN NaN ELSE Str("nan")
      [] OTHER -> IF keepna THEN NaN ELSE Str("NaT")

\* pd.to_numeric(df[c], errors='coerce')
ToNumeric(v) ==
    CASE v.t = "num" -> v
      [] v.t = "str" -> ParseNum(v.s)
      [] OTHER -> NaN

\* pd.to_datetime(df[c], errors='coerce')
ToDatetime(v) ==
    CASE v.t = "ts" -> v
      [] v.t = "str" -> ParseIso(v.s)
      [] v.t = "num" -> Ts(v.n, "")
      [] OTHER -> NaT

\* the if / elif chain of lines 196-202: a tag that is none of the three
\* matches no branch and leaves the column as it is
Coerce(vtype, v, keepna) ==
    CASE vtype = "text" -> AsTypeStr(v, keepna)
      [] vtype = "numeric" -> ToNumeric(v)
      [] vtype = "timestamp" -> ToDatetime(v)
      [] OTHER -> v

\* v.get(k) of a record
Get(rec, k) == IF k \in DOMAIN rec THEN rec[k] ELSE Null

\* pd.DataFrame([{k: v.get(k) for k in columns} for v in records]): the
\* dict comprehension collapses a repeated name of columns into one key
SelectFrame(records, columns) ==
    \* pd.DataFrame([]) has no columns at all
    LET cols == IF records = <<>> THEN <<>> ELSE Dedup(columns)
    IN [cols |-> cols,
        rows |-> [i \in 1..Len(records) |->
                    [c \in Range(cols) |-> Get(records[i], c)]]]

\* some enumeration of a finite set (the key order of a JSON object is not
\* modelled, so the column order of pd.DataFrame(records) is left arbitrary)
RECURSIVE SetToSeq(_)
SetToSeq(S) ==
    IF S = {} THEN <<>>
    ELSE LET x == CHOOSE y \in S : TRUE IN <<x>> \o SetToSeq(S \ {x})

\* pd.DataFrame(records): the union of the records' keys, NaN where a
\* record lacks a key
RawFrame(records) ==
    LET keys == UNION {DOMAIN records[i] : i \in 1..Len(records)}
    IN [cols |-> SetToSeq(keys),
        rows |-> [i \in 1..Len(records) |->
                    [c \in keys |-> IF c \in DOMAIN records[i]
                                    THEN records[i][c] ELSE NaN]]]

\* the coercion loop, lines 195-202
CoerceFrame(df, fields, keepna) ==
    [cols |-> df.cols,
     rows |-> [i \in 1..Len(df.rows) |->
                 [c \in Range(df.cols) |->
                    Coerce(FieldType(fields, c), df.rows[i][c], keepna)]]]

\* columns = <<FALSE, <<>> >> stands for columns=None
records_to_dataframe_raw(fields, records, columns, keepna) ==
    CoerceFrame(IF columns[1] THEN SelectFrame(records, columns[2])
                ELSE RawFrame(records),
                fields, keepna)

\* inv_dict = dict(zip(column_dict.values(), column_dict.keys())): a later
\* pair overwrites an earlier one with the same API name
InvDict(column_dict, api) ==
    LET hits == {i \in 1..Len(column_dict) : column_dict[i][2] = api}
    IN IF hits = {} THEN api
       ELSE column_dict[CHOOSE i \in hits : \A j \in hits : j <= i][1]

\* df.rename(inv_dict, axis=1)
RenameFrame(df, column_dict) ==
    LET new(c) == InvDict(column_dict, c)
        newcols == [i \in 1..Len(df.cols) |-> new(df.cols[i])]
        old(f) == CHOOSE c \in Range(df.cols) : new(c) = f
    IN [cols |-> newcols,
        rows |-> [i \in 1..Len(df.rows) |->
                    [f \in Range(newcols) |-> df.rows[i][old(f)]]]]

records_to_dataframe(column_dict, fields, records, keepna) ==
    RenameFrame(
        records_to_dataframe_raw(fields, records,
                                 <<TRUE, DictValues(column_dict)>>, keepna),
        column_dict)

(***************************************************************************)
(* Exceptions.  site is the line of meteodata.py that raises, status the   *)
(* HTTP status the message carries (0: none), cause the exception it was   *)
(* raised from.  A wrapper's message embeds str() of the wrapped one       *)
(* (f"...: {e}"), so it carries the same status text.                      *)
(***************************************************************************)
NoCause == [kind |-> "", site |-> 0, status |-> 0]
Exc(kind, site, status) ==
    [kind |-> kind, site |-> site, status |-> status, cause |-> NoCause]
RaiseFrom(kind, site, e) ==
    [kind |-> kind, site |-> site, status |-> e.status,
     cause |-> [kind |-> e.kind, site |-> e.site, status |-> e.status]]

\* exceptions.py: the three kinds the public operations document
LibraryKinds == {"ValidationError", "APIError", "DataNotFoundError"}

Ok(v) == [ok |-> TRUE, val |-> v]
Err(e) == [ok |-> FALSE, exc |-> e]

(***************************************************************************)
(* Reshaper: get_lv_meteo_data, lines 282-286.                             *)
(***************************************************************************)
\* Python's str ordering on the identifiers the model uses
StrRank(x) ==
    CASE x = "A" -> 1
      [] x = "B" -> 2
      [] x = "P" -> 3
      [] x = "Q" -> 4
      [] OTHER -> 0

\* ordering of index cells: text by str order, timestamps by instant
CellLess(a, b) ==
    IF a.t = "str" /\ b.t = "str" THEN StrRank(a.s) < StrRank(b.s)
    ELSE a.n < b.n

Key(r) == <<r["station_id"], r["param"], r["date"]>>
Pair(r) == <<r["station_id"], r["param"]>>

\* lexicographic order of the (station_id, param, date) index
KeyLess(a, b) ==
    \/ CellLess(a[1], b[1])
    \/ a[1] = b[1] /\ CellLess(a[2], b[2])
    \/ a[1] = b[1] /\ a[2] = b[2] /\ CellLess(a[3], b[3])

\* pd.DatetimeIndex(df['date']): text cells are parsed, an unparseable one
\* raises
DatetimeIndexCell(v) ==
    CASE v.t = "ts" -> v
      [] v.t = "str" -> ParseIso(v.s)
      [] v.t = "num" -> Ts(v.n, "")
      [] OTHER -> NaT
DatetimeIndexRaises(rows) ==
    \E i \in 1..Len(rows) :
        rows[i]["date"].t = "str" /\ ParseIso(rows[i]["date"].s) = NaT

\* .tz_localize('UTC') raises TypeError("Already tz-aware ...") on an index
\* that carries a timezone
TzAware(rows) ==
    \E i \in 1..Len(rows) :
        LET d == DatetimeIndexCell(rows[i]["date"])
        IN d.t = "ts" /\ d.s # ""
TzLocalizeCell(v) == IF v.t = "ts" THEN Ts(v.n, "UTC") ELSE v

\* line 283
LocalizeDates(rows) ==
    [i \in 1..Len(rows) |->
        [rows[i] EXCEPT !["date"] = TzLocalizeCell(DatetimeIndexCell(@))]]

\* df.drop_duplicates(keep='first'): whole rows compared, NaN equal to NaN
drop_duplicates(rows) == Dedup(rows)

\* .set_index([...]).sort_index(): a stable sort on the key
RECURSIVE sort_index(_)
sort_index(rows) ==
    IF rows = <<>> THEN <<>>
    ELSE LET front == sort_index(SubSeq(rows, 1, Len(rows) - 1))
             r == rows[Len(rows)]
             k == Cardinality({i \in 1..Len(front) :
                                 ~KeyLess(Key(r), Key(front[i]))})
         IN SubSeq(front, 1, k) \o <<r>> \o SubSeq(front, k + 1, Len(front))

HasDuplicateKeys(rows) ==
    \E i, j \in 1..Len(rows) : i < j /\ Key(rows[i]) = Key(rows[j])

RECURSIVE SortCells_Desc(_)
SortCells_Desc(S) ==
    IF S = {} THEN <<>>
    ELSE LET m == CHOOSE x \in S : \A y \in S : ~CellLess(x, y)
         IN <<m>> \o SortCells_Desc(S \ {m})

\* the distinct dates, ascending (the level left in the row index)
RECURSIVE SortCells(_)
SortCells(S) ==
    IF S = {} THEN <<>>
    ELSE LET m == CHOOSE x \in S : \A y \in S : ~CellLess(y, x)
         IN <<m>> \o SortCells(S \ {m})

\* unstack(level='station_id') alone: the columns forget the parameter
unstack_StationOnly(rows) ==
    LET index == SortCells({rows[i]["date"] : i \in 1..Len(rows)})
        first(s) == CHOOSE i \in 1..Len(rows) :
                        /\ rows[i]["station_id"] = s
                        /\ \A j \in 1..(i - 1) : rows[j]["station_id"] # s
        stations == Dedup([i \in 1..Len(rows) |-> rows[i]["station_id"]])
        columns == [k \in 1..Len(stations) |-> Pair(rows[first(stations[k])])]
        cell(d, c) ==
            LET hits == {i \in 1..Len(rows) :
                           rows[i]["date"] = d /\ rows[i]["station_id"] = c[1]}
            IN IF hits = {} THEN NaN
               ELSE rows[CHOOSE i \in hits : TRUE]["value"]
    IN [shape |-> "pivot", index |-> index, columns |-> columns,
        cells |-> [i \in 1..Len(index) |->
                     [j \in 1..Len(columns) |-> cell(index[i], columns[j])]]]

\* .unstack(level=['station_id', 'param'])['value']: one row per date, one
\* column per (station_id, param) in order of first appearance, the value
\* where the long frame has the key and NaN elsewhere.  A key held by two
\* rows raises ValueError("Index contains duplicate entries, cannot
\* reshape").
unstack(rows) ==
    LET index == SortCells({rows[i]["date"] : i \in 1..Len(rows)})
        columns == Dedup([i \in 1..Len(rows) |-> Pair(rows[i])])
        cell(d, c) ==
            LET hits == {i \in 1..Len(rows) :
                           rows[i]["date"] = d /\ Pair(rows[i]) = c}
            IN IF hits = {} THEN NaN
               ELSE rows[CHOOSE i \in hits : TRUE]["value"]
    IN [shape |-> "pivot", index |-> index, columns |-> columns,
        cells |-> [i \in 1..Len(index) |->
                     [j \in 1..Len(columns) |-> cell(index[i], columns[j])]]]

\* a reshape that keeps one of the rows that share a key
Reshape_KeepOne(df) ==
    IF DatetimeIndexRaises(df.rows) THEN Err(Exc("ValueError", 283, 0))
    ELSE IF TzAware(df.rows) THEN Err(Exc("TypeError", 283, 0))
    ELSE Ok(unstack(sort_index(drop_duplicates(LocalizeDates(df.rows)))))

\* lines 282-286, df being the frame of records_to_dataframe(DATA_COLUMNS, ..)
Reshape(df) ==
    IF DatetimeIndexRaises(df.rows) THEN Err(Exc("ValueError", 283, 0))
    ELSE IF TzAware(df.rows) THEN Err(Exc("TypeError", 283, 0))
    ELSE LET long == sort_index(drop_duplicates(LocalizeDates(df.rows)))
         IN IF HasDuplicateKeys(long) THEN Err(Exc("ValueError", 286, 0))
            ELSE Ok(unstack(long))

(***************************************************************************)
(* Query builder: create_lv_meteo_data_sql.                                *)
(* A Python str or list argument is PyStr / PyList; a date argument is     *)
(* [kind, t]: a naive datetime, an aware datetime, or something that is no *)
(* datetime at all (t = hours after 2024-01-01T00:00).                     *)
(***************************************************************************)
PyStr(x) == [py |-> "str", s |-> x, items |-> <<>>]
PyList(l) == [py |-> "list", s |-> "", items |-> l]
Truthy(v) == IF v.py = "str" THEN v.s # "" ELSE v.items # <<>>

Date(kind, t) == [kind |-> kind, t |-> t]
IsDatetime(d) == d.kind \in {"naive", "aware"}

\* datetime.isoformat() of the dates the model uses
IsoFormat(d) ==
    (CASE d.t = 0 -> "2024-01-01T00:00:00"
       [] d.t = 24 -> "2024-01-02T00:00:00"
       [] OTHER -> "?")
    \o (IF d.kind = "aware" THEN "+00:00" ELSE "")

\* list(x) of the strings the model uses: one element per character
Chars(x) ==
    CASE x = "AB" -> <<"A", "B">>
      [] x = "PQ" -> <<"P", "Q">>
      [] x = "" -> <<>>
      [] OTHER -> <<x>>

NormalizeToList_Chars(v) == IF v.py = "str" THEN Chars(v.s) ELSE v.items
\* lines 90-93: a str is wrapped, never iterated
NormalizeToList(v) == IF v.py = "str" THEN <<v.s>> ELSE v.items

\* ",".join(map(lambda x: f"'{x}'", xs))
RECURSIVE QuoteJoin(_)
QuoteJoin(xs) ==
    IF xs = <<>> THEN ""
    ELSE IF Len(xs) = 1 THEN "'" \o xs[1] \o "'"
    ELSE "'" \o xs[1] \o "'," \o QuoteJoin(Tail(xs))

\* line 84: startdate >= enddate
DateRangeInvalid_Gt(startdate, enddate) == startdate.t > enddate.t
DateRangeInvalid(startdate, enddate) == startdate.t >= enddate.t

create_lv_meteo_data_sql(table, stations, parameters, startdate, enddate) ==
    IF table = "" THEN Err(Exc("ValidationError", 75, 0))
    ELSE IF ~Truthy(stations) THEN Err(Exc("ValidationError", 77, 0))
    ELSE IF ~Truthy(parameters) THEN Err(Exc("ValidationError", 79, 0))
    ELSE IF ~IsDatetime(startdate) THEN Err(Exc("ValidationError", 81, 0))
    ELSE IF ~IsDatetime(enddate) THEN Err(Exc("ValidationError", 83, 0))
    \* comparing a naive with an aware datetime raises TypeError
    ELSE IF startdate.kind # enddate.kind THEN Err(Exc("TypeError", 84, 0))
    ELSE IF DateRangeInvalid(startdate, enddate)
    THEN Err(Exc("ValidationError", 85, 0))
    ELSE Ok("SELECT * from \"" \o table \o "\" WHERE \"STATION_ID\" in ("
            \o QuoteJoin(NormalizeToList(stations))
            \o ") and \"ABBREVIATION\" in ("
            \o QuoteJoin(NormalizeToList(parameters))
            \o ") and \"DATETIME\" BETWEEN '" \o IsoFormat(startdate)
            \o "' and '" \o IsoFormat(enddate) \o "'")

(***************************************************************************)
(* Transport: get_response_from_lv_data.                                   *)
(***************************************************************************)
\* lines 130-131, before the try
SqlCheck(q) == IF q = "" THEN Err(Exc("ValidationError", 131, 0)) ELSE Ok(q)

\* the except clauses of lines 160-171: whatever is raised inside the try,
\* the APIError of line 158 included, is re-raised as a new APIError
TransportCatch(e) ==
    CASE e.kind = "TimeoutExpired" -> RaiseFrom("APIError", 163, e)
      [] e.kind = "CalledProcessError" -> RaiseFrom("APIError", 167, e)
      [] OTHER -> RaiseFrom("APIError", 171, e)

\* the except clauses that close get_lv_meteo_data (291-296, site = 296) and
\* get_fromsql (404-409, site = 409)
TopLevelCatch_NoWrap(site, e) == e
TopLevelCatch(site, e) ==
    IF e.kind \in LibraryKinds THEN e ELSE RaiseFrom("APIError", site, e)

CatchSite(o) == IF o = "get_lv_meteo_data" THEN 296 ELSE 409

(***************************************************************************)
(* The decoded JSON envelope.  kind "nondict" is a JSON document that is   *)
(* no object; success is "true", "false" or "absent"; result is "absent",  *)
(* "empty" ({}) or "dict" (an object with at least one key).               *)
(***************************************************************************)
NoData ==
    [kind |-> "none", success |-> "absent", result |-> "absent",
     has_fields |-> FALSE, fields |-> <<>>,
     has_records |-> FALSE, records |-> <<>>]
NonDict == [NoData EXCEPT !.kind = "nondict"]
Envelope(success, result, has_fields, fields, has_records, records) ==
    [kind |-> "dict", success |-> success, result |-> result,
     has_fields |-> has_fields, fields |-> fields,
     has_records |-> has_records, records |-> records]

(***************************************************************************)
(* Tables handed back to the caller.                                       *)
(***************************************************************************)
NoTable == [shape |-> "none"]
FrameTable(df) ==
    [shape |-> "frame", cols |-> df.cols, rows |-> df.rows, index |-> ""]
\* df.set_index(c)
set_index(df, c) ==
    [shape |-> "frame",
     cols |-> SelectSeq(df.cols, LAMBDA x : x # c),
     rows |-> df.rows, index |-> c]
\* df.empty
Empty(df) == df.rows = <<>> \/ df.cols = <<>>

(***************************************************************************)
(* The envelope checks both public operations make once the transport has  *)
(* returned: get_lv_meteo_data lines 264-273 (meteo = TRUE) and            *)
(* get_fromsql lines 375-384.  The result is the records list, or the      *)
(* exception raised.                                                       *)
(***************************************************************************)
\* data.get('success', False)
SuccessFlag(d) == d.success = "true"
\* not data.get('result'): None and {} are both falsy
ResultMissing(d) == d.result # "dict"
\* result.get('records', [])
RecordsOf(d) == IF d.has_records THEN d.records ELSE <<>>

EnvelopeRecords_ResultFirst(d, meteo) ==
    IF d.kind # "dict"
    THEN Err(Exc("AttributeError", IF meteo THEN 264 ELSE 375, 0))
    ELSE IF ResultMissing(d)
    THEN Err(Exc("DataNotFoundError", IF meteo THEN 271 ELSE 382, 0))
    ELSE IF ~SuccessFlag(d)
    THEN Err(Exc("APIError", IF meteo THEN 267 ELSE 378, 0))
    ELSE Ok(RecordsOf(d))

EnvelopeRecords_EmptyIsMissing(d, meteo) ==
    IF d.kind # "dict"
    THEN Err(Exc("AttributeError", IF meteo THEN 264 ELSE 375, 0))
    ELSE IF ~SuccessFlag(d)
    THEN Err(Exc("APIError", IF meteo THEN 267 ELSE 378, 0))
    ELSE IF ResultMissing(d) \/ RecordsOf(d) = <<>>
    THEN Err(Exc("DataNotFoundError", IF meteo THEN 271 ELSE 382, 0))
    ELSE Ok(RecordsOf(d))

EnvelopeRecords(d, meteo) ==
    \* data.get on a document that is no object raises AttributeError
    IF d.kind # "dict"
    THEN Err(Exc("AttributeError", IF meteo THEN 264 ELSE 375, 0))
    ELSE IF ~SuccessFlag(d)
    THEN Err(Exc("APIError", IF meteo THEN 267 ELSE 378, 0))
    ELSE IF ResultMissing(d)
    THEN Err(Exc("DataNotFoundError", IF meteo THEN 271 ELSE 382, 0))
    ELSE Ok(RecordsOf(d))

(***************************************************************************)
(* get_lv_meteo_data after the transport returned, lines 264-289.          *)
(***************************************************************************)
MeteoPipeline(d, keepna) ==
    LET e == EnvelopeRecords(d, TRUE)
    IN IF ~e.ok THEN e
       ELSE IF e.val = <<>> THEN Ok(FrameTable(EmptyFrame))
       \* result['fields']
       ELSE IF ~d.has_fields THEN Err(Exc("KeyError", 280, 0))
       ELSE LET df == records_to_dataframe(DATA_COLUMNS, d.fields, e.val,
                                           keepna)
            IN IF "date" \in Range(df.cols) /\ ~Empty(df)
               THEN Reshape(df)
               ELSE Ok(FrameTable(df))

(***************************************************************************)
(* get_fromsql after the transport returned, lines 375-402.                *)
(* fieldmap and index_col are <<given, value>>: <<FALSE, _>> is None.      *)
(***************************************************************************)
SqlPipeline(d, fieldmap, index_col, keepna) ==
    LET e == EnvelopeRecords(d, FALSE)
    IN IF ~e.ok THEN e
       ELSE IF e.val = <<>> THEN Ok(FrameTable(EmptyFrame))
       ELSE IF ~d.has_fields
       THEN Err(Exc("KeyError", IF fieldmap[1] THEN 392 ELSE 394, 0))
       ELSE LET df == IF fieldmap[1]
                      THEN records_to_dataframe(fieldmap[2], d.fields, e.val,
                                                keepna)
                      ELSE records_to_dataframe_raw(
                               d.fields, e.val, <<FALSE, <<>> >>, keepna)
            IN IF index_col[1] /\ ~Empty(df)
                  /\ index_col[2] \in Range(df.cols)
               THEN Ok(set_index(df, index_col[2]))
               ELSE Ok(FrameTable(df))

(***************************************************************************)
(* Input domains.                                                          *)
(***************************************************************************)
SeqsUpTo(S, n) == UNION {[1..k -> S] : k \in 0..n}

IsoNaive == {"2024-01-01T00:00:00", "2024-01-01T06:00:00"}
IsoTagged == {"2024-01-01T00:00:00Z", "2024-01-01T06:00:00Z"}

ApiRow(s, p, d, v) ==
    [STATION_ID |-> Str(s), ABBREVIATION |-> Str(p), DATETIME |-> Str(d),
     VALUE |-> v]
ApiRows(S, P, D, V) ==
    {ApiRow(s, p, d, v) : s \in S, p \in P, d \in D, v \in V}

\* the field metadata the datastore sends for an observation table
ObservationFields ==
    << [id |-> "STATION_ID", type |-> "text"],
       [id |-> "ABBREVIATION", type |-> "text"],
       [id |-> "DATETIME", type |-> "timestamp"],
       [id |-> "VALUE", type |-> "numeric"] >>

\* records lists of a reply: the server writes all its timestamps the same
\* way, either all without or all with a timezone designator
RecordLists(n) ==
    SeqsUpTo(ApiRows({"A", "B"}, {"P"}, IsoNaive, {Num(5), Num(6)}), n)
    \cup SeqsUpTo(ApiRows({"A", "B"}, {"P"}, IsoTagged, {Num(5), Num(6)}), n)

Envelopes ==
    {NonDict}
    \cup {Envelope(s, r, FALSE, <<>>, FALSE, <<>>) :
            s \in {"true", "false", "absent"}, r \in {"absent", "empty"}}
    \cup {Envelope("true", "dict", f[1], f[2], FALSE, <<>>) :
            f \in {<<FALSE, <<>> >>, <<TRUE, ObservationFields>>}}
    \cup {Envelope("true", "dict", f[1], f[2], TRUE, recs) :
            f \in {<<FALSE, <<>> >>, <<TRUE, <<>> >>, <<TRUE, ObservationFields>>},
            recs \in RecordLists(MaxRecords)}
    \cup {Envelope(s, "dict", TRUE, ObservationFields, TRUE, recs) :
            s \in {"false", "absent"}, recs \in RecordLists(1)}

Dates ==
    {Date("naive", 0), Date("naive", 24), Date("aware", 0), Date("other", 0)}

NoArgs ==
    [table |-> "", stations |-> PyList(<<>>), parameters |-> PyList(<<>>),
     startdate |-> Date("other", 0), enddate |-> Date("other", 0),
     use_curl |-> FALSE, sql |-> "", fieldmap |-> <<FALSE, <<>> >>,
     index_col |-> <<FALSE, "">>]

NoOutcome == [kind |-> "none", exc |-> Exc("", 0, 0), table |-> NoTable]

(***************************************************************************)
(* The call machine.                                                       *)
(***************************************************************************)
Init ==
    /\ pc = "idle"
    /\ op = ""
    /\ args = NoArgs
    /\ sql = ""
    /\ curl_calls = 0
    /\ http_calls = 0
    /\ data = NoData
    /\ raised = <<>>
    /\ outcome = NoOutcome

\* the call ends with exception e raised inside the public operation o: its
\* except clauses decide what the caller receives
Raise(o, e) ==
    LET out == TopLevelCatch(CatchSite(o), e)
    IN /\ pc' = "done"
       /\ raised' = raised \o (IF out = e THEN <<e>> ELSE <<e, out>>)
       /\ outcome' = [kind |-> "raise", exc |-> out, table |-> NoTable]

Return(t) ==
    /\ pc' = "done"
    /\ outcome' = [kind |-> "return", exc |-> Exc("", 0, 0), table |-> t]
    /\ UNCHANGED raised

\* a transport that starts the HTTP request whatever use_curl says
Send_AlsoHttp(o, q, use_curl) ==
    LET c == SqlCheck(q)
    IN IF ~c.ok
       THEN Raise(o, c.exc) /\ UNCHANGED <<curl_calls, http_calls>>
       ELSE /\ pc' = "waiting"
            /\ curl_calls' = curl_calls + (IF use_curl THEN 1 ELSE 0)
            /\ http_calls' = http_calls + 1
            /\ UNCHANGED <<raised, outcome>>

\* get_response_from_lv_data up to the moment the request is out: the empty
\* SQL check, then exactly one of the two mechanisms is started
Send(o, q, use_curl) ==
    LET c == SqlCheck(q)
    IN IF ~c.ok
       THEN Raise(o, c.exc) /\ UNCHANGED <<curl_calls, http_calls>>
       ELSE /\ pc' = "waiting"
            /\ curl_calls' = curl_calls + (IF use_curl THEN 1 ELSE 0)
            /\ http_calls' = http_calls + (IF use_curl THEN 0 ELSE 1)
            /\ UNCHANGED <<raised, outcome>>

Call_get_lv_meteo_data ==
    /\ pc = "idle"
    /\ \E table \in {"", "T1"},
          stations \in {PyList(<<>>), PyStr(""), PyList(<<"A", "B">>)},
          parameters \in {PyList(<<>>), PyStr("P")},
          startdate \in Dates, enddate \in Dates, use_curl \in BOOLEAN :
         LET q == create_lv_meteo_data_sql(table, stations, parameters,
                                           startdate, enddate)
         IN /\ op' = "get_lv_meteo_data"
            /\ args' = [NoArgs EXCEPT !.table = table, !.stations = stations,
                          !.parameters = parameters, !.startdate = startdate,
                          !.enddate = enddate, !.use_curl = use_curl]
            /\ IF q.ok
               THEN sql' = q.val /\ Send("get_lv_meteo_data", q.val, use_curl)
               ELSE /\ Raise("get_lv_meteo_data", q.exc)
                    /\ UNCHANGED <<sql, curl_calls, http_calls>>
    /\ UNCHANGED data

Call_get_fromsql ==
    /\ pc = "idle"
    /\ \E q \in {"", "SELECT 1"},
          fieldmap \in {<<FALSE, <<>> >>, <<TRUE, DATA_COLUMNS>>},
          index_col \in {<<FALSE, "">>, <<TRUE, "station_id">>,
                         <<TRUE, "nosuch">>},
          use_curl \in BOOLEAN :
         /\ op' = "get_fromsql"
         /\ args' = [NoArgs EXCEPT !.sql = q, !.fieldmap = fieldmap,
                       !.index_col = index_col, !.use_curl = use_curl]
         /\ sql' = q
         /\ Send("get_fromsql", q, use_curl)
    /\ UNCHANGED data

\* get_table, lines 345-346: builds the SQL and hands over to get_fromsql
Call_get_table ==
    /\ pc = "idle"
    /\ \E table \in {"", "T1"},
          index_col \in {<<FALSE, "">>, <<TRUE, "station_id">>},
          use_curl \in BOOLEAN :
         LET q == "SELECT * from \"" \o table \o "\" "
         IN /\ op' = "get_table"
            /\ args' = [NoArgs EXCEPT !.table = table, !.sql = q,
                          !.fieldmap = <<TRUE, DATA_COLUMNS>>,
                          !.index_col = index_col, !.use_curl = use_curl]
            /\ sql' = q
            /\ Send("get_table", q, use_curl)
    /\ UNCHANGED data

\* what can be raised inside the try of get_response_from_lv_data
CurlExceptions ==
    {Exc("TimeoutExpired", 140, 0), Exc("CalledProcessError", 140, 0),
     Exc("FileNotFoundError", 140, 0), Exc("JSONDecodeError", 143, 0)}
HttpExceptions ==
    {Exc("ConnectionError", 148, 0), Exc("JSONDecodeError", 152, 0)}
HttpErrorStatuses == {404, 500}

\* the exception e is raised inside the try: lines 160-171 turn it into an
\* APIError, which the caller's except clauses then see
TransportRaise(e) ==
    LET w == TransportCatch(e)
        out == TopLevelCatch(CatchSite(op), w)
    IN /\ pc' = "done"
       /\ raised' = raised \o <<e, w>> \o (IF out = w THEN <<>> ELSE <<out>>)
       /\ outcome' = [kind |-> "raise", exc |-> out, table |-> NoTable]
       /\ UNCHANGED <<op, args, sql, curl_calls, http_calls, data>>

Curl_Raises ==
    /\ pc = "waiting" /\ args.use_curl
    /\ \E e \in CurlExceptions : TransportRaise(e)

Http_Raises ==
    /\ pc = "waiting" /\ ~args.use_curl
    /\ \E e \in HttpExceptions : TransportRaise(e)

\* lines 155-158: response.ok is false
Http_NotOk ==
    /\ pc = "waiting" /\ ~args.use_curl
    /\ \E status \in HttpErrorStatuses :
         TransportRaise(Exc("APIError", 158, status))

\* lines 143-144 and 151-154: the decoded document is returned
Transport_Returns ==
    /\ pc = "waiting"
    /\ \E d \in Envelopes : data' = d
    /\ pc' = "process"
    /\ UNCHANGED <<op, args, sql, curl_calls, http_calls, raised, outcome>>

Process_get_lv_meteo_data ==
    /\ pc = "process" /\ op = "get_lv_meteo_data"
    /\ \E keepna \in BOOLEAN :
         LET r == MeteoPipeline(data, keepna)
         IN IF r.ok THEN Return(r.val) ELSE Raise(op, r.exc)
    /\ UNCHANGED <<op, args, sql, curl_calls, http_calls, data>>

Process_get_fromsql ==
    /\ pc = "process" /\ op \in {"get_fromsql", "get_table"}
    /\ \E keepna \in BOOLEAN :
         LET r == SqlPipeline(data, args.fieldmap, args.index_col, keepna)
         IN IF r.ok THEN Return(r.val) ELSE Raise(op, r.exc)
    /\ UNCHANGED <<op, args, sql, curl_calls, http_calls, data>>

Next ==
    \/ Call_get_lv_meteo_data
    \/ Call_get_fromsql
    \/ Call_get_table
    \/ Curl_Raises
    \/ Http_Raises
    \/ Http_NotOk
    \/ Transport_Returns
    \/ Process_get_lv_meteo_data
    \/ Process_get_fromsql

Spec == Init /\ [][Next]_vars

(***************************************************************************)
(* Properties of the call machine.                                         *)
(***************************************************************************)
Done == pc = "done"
Raised(kind) == outcome.kind = "raise" /\ outcome.exc.kind = kind
TransportCalls == curl_calls + http_calls

\* the arguments named by the validation contract of get_lv_meteo_data
InvalidMeteoArgs ==
    \/ args.table = ""
    \/ ~Truthy(args.stations)
    \/ ~Truthy(args.parameters)
    \/ /\ IsDatetime(args.startdate) /\ IsDatetime(args.enddate)
       /\ args.startdate.kind = args.enddate.kind
       /\ args.startdate.t >= args.enddate.t

\* C1: a call of get_lv_meteo_data with an empty table, an empty station
\* list, an empty parameter list or startdate >= enddate, and a call of
\* get_fromsql with an empty SQL string, has raised ValidationError and has
\* started neither the HTTP request nor the curl process.
C1_ValidationBeforeTransport ==
    (\/ op = "get_lv_meteo_data" /\ InvalidMeteoArgs
     \/ op = "get_fromsql" /\ args.sql = "")
    => Done /\ Raised("ValidationError") /\ outcome.exc.cause = NoCause
       /\ curl_calls = 0 /\ http_calls = 0

C1_Witness ==
    /\ Done /\ op = "get_lv_meteo_data"
    /\ args.table # "" /\ Truthy(args.stations) /\ Truthy(args.parameters)
    /\ args.startdate = Date("naive", 24) /\ args.enddate = Date("naive", 24)
    /\ outcome.exc = Exc("ValidationError", 85, 0)
    /\ TransportCalls = 0

SuccessEnvelope == data.kind = "dict" /\ data.success = "true"

\* C2: for a decoded envelope with success true, a result holding an empty
\* records list makes the call return a table of zero rows, and an absent
\* result makes the call raise DataNotFoundError.
C2_EmptyRecordsVersusNoResult ==
    (Done /\ SuccessEnvelope)
    => /\ (data.result = "dict" /\ data.has_records /\ data.records = <<>>)
          => /\ outcome.kind = "return"
             /\ outcome.table.shape = "frame"
             /\ outcome.table.rows = <<>>
       /\ data.result = "absent" => Raised("DataNotFoundError")

C2_Witness ==
    /\ Done /\ SuccessEnvelope
    /\ data.result = "dict" /\ data.has_records /\ data.records = <<>>
    /\ outcome.kind = "return" /\ outcome.table.rows = <<>>

\* C3: an envelope that reports success false makes the call raise the
\* APIError of the success check, whatever its result and records hold:
\* never DataNotFoundError, never a table.
C3_SuccessFalseIsAPIError ==
    (Done /\ data.kind = "dict" /\ data.success = "false")
    => /\ Raised("APIError")
       /\ outcome.exc.site = (IF op = "get_lv_meteo_data" THEN 267 ELSE 378)
       /\ outcome.exc.cause = NoCause

C3_Witness ==
    /\ Done /\ data.kind = "dict" /\ data.success = "false"
    /\ data.result = "dict" /\ data.records # <<>>
    /\ Raised("APIError")

AsCause(e) == [kind |-> e.kind, site |-> e.site, status |-> e.status]

\* C4: a failing call ends in ValidationError, APIError or
\* DataNotFoundError; an exception of any other kind raised on the way is
\* re-raised as an APIError that has it as its cause.
C4_OnlyLibraryErrorsEscape ==
    (Done /\ outcome.kind = "raise")
    => /\ outcome.exc.kind \in LibraryKinds
       /\ raised[1].kind \notin LibraryKinds
          => /\ outcome.exc.kind = "APIError"
             /\ outcome.exc.cause = AsCause(raised[1])
             /\ data.kind # "none" => outcome.exc.site = CatchSite(op)

C4_Witness ==
    /\ Done /\ op = "get_lv_meteo_data"
    /\ raised = <<Exc("KeyError", 280, 0),
                  RaiseFrom("APIError", 296, Exc("KeyError", 280, 0))>>
    /\ outcome.exc = raised[2]

\* C5: a ValidationError, APIError or DataNotFoundError raised by an inner
\* stage is the very exception the caller receives: nothing is raised
\* after it and it is not wrapped in a second APIError.
C5_LibraryErrorsPropagateUnchanged ==
    (Done /\ outcome.kind = "raise" /\ raised[1].kind \in LibraryKinds)
    => outcome.exc = raised[1] /\ Len(raised) = 1

\* the records of a successful reply that no reshape can reject: no two of
\* them share (STATION_ID, ABBREVIATION, DATETIME) with different VALUEs
NoConflict(records) ==
    \A i, j \in 1..Len(records) :
        (/\ records[i].STATION_ID = records[j].STATION_ID
         /\ records[i].ABBREVIATION = records[j].ABBREVIATION
         /\ records[i].DATETIME = records[j].DATETIME)
        => records[i].VALUE = records[j].VALUE

AllTagged(records) ==
    \A i \in 1..Len(records) : records[i].DATETIME.s \in IsoTagged

\* C6: get_lv_meteo_data returns the pivoted table for a successful reply
\* whose DATETIME values already carry a timezone.
C6_TaggedTimestampsAccepted ==
    (/\ Done /\ op = "get_lv_meteo_data" /\ SuccessEnvelope
     /\ data.result = "dict" /\ data.has_fields
     /\ data.has_records /\ data.records # <<>>
     /\ AllTagged(data.records) /\ NoConflict(data.records))
    => outcome.kind = "return" /\ outcome.table.shape = "pivot"

(***************************************************************************)
(* The reshaper on its own: get_lv_meteo_data from the moment the          *)
(* transport has returned a successful envelope, for every records list    *)
(* of up to MaxRows observation rows.                                      *)
(***************************************************************************)
PivotArgs ==
    [NoArgs EXCEPT !.table = "T1", !.stations = PyList(<<"A", "B">>),
       !.parameters = PyList(<<"P", "Q">>),
       !.startdate = Date("naive", 0), !.enddate = Date("naive", 24)]

\* observation rows of three (station, parameter) series, two instants, a
\* measured value or none
PivotRows ==
    {ApiRow(k[1], k[2], d, v) :
        k \in {<<"A", "P">>, <<"A", "Q">>, <<"B", "P">>},
        d \in IsoNaive, v \in {Num(5), Null}}
PivotRecordLists == SeqsUpTo(PivotRows, MaxRows)

InitPivot ==
    /\ pc = "process"
    /\ op = "get_lv_meteo_data"
    /\ args = PivotArgs
    /\ sql = create_lv_meteo_data_sql(PivotArgs.table, PivotArgs.stations,
                 PivotArgs.parameters, PivotArgs.startdate,
                 PivotArgs.enddate).val
    /\ curl_calls = 0
    /\ http_calls = 1
    /\ data \in {Envelope("true", "dict", TRUE, ObservationFields, TRUE, recs) :
                   recs \in PivotRecordLists}
    /\ raised = <<>>
    /\ outcome = NoOutcome

NextPivot == Process_get_lv_meteo_data

SpecPivot == InitPivot /\ [][NextPivot]_vars

\* the typed long table the reshaper starts from: the frame of line 280
\* with its date column localised (line 283)
LongRows ==
    LocalizeDates(
        records_to_dataframe(DATA_COLUMNS, data.fields, data.records,
                             FALSE).rows)

UniqueKeys(rows) ==
    \A i, j \in 1..Len(rows) : Key(rows[i]) = Key(rows[j]) => i = j

Pivoted ==
    /\ Done /\ op = "get_lv_meteo_data" /\ SuccessEnvelope
    /\ data.result = "dict" /\ data.has_fields /\ RecordsOf(data) # <<>>
    /\ outcome.kind = "return"

\* C7: for response rows with unique (station_id, param, date) triples the
\* returned table has one row per distinct timestamp, ascending, one column
\* per distinct (station_id, param) pair, and each cell holds the value of
\* the row with that key, or NaN when there is no such row.
C7_PivotShape ==
    (Pivoted /\ UniqueKeys(LongRows))
    => LET t == outcome.table
           rows == LongRows
       IN /\ t.shape = "pivot"
          /\ Range(t.index) = {rows[i]["date"] : i \in 1..Len(rows)}
          /\ \A i, j \in 1..Len(t.index) :
                i < j => t.index[i].n < t.index[j].n
          /\ Range(t.columns) = {Pair(rows[i]) : i \in 1..Len(rows)}
          /\ \A i, j \in 1..Len(t.columns) :
                t.columns[i] = t.columns[j] => i = j
          /\ \A i \in 1..Len(t.index), j \in 1..Len(t.columns) :
                LET hits == {k \in 1..Len(rows) :
                               /\ rows[k]["date"] = t.index[i]
                               /\ Pair(rows[k]) = t.columns[j]}
                IN IF hits = {} THEN t.cells[i][j] = NaN
                   ELSE \A k \in hits : t.cells[i][j] = rows[k]["value"]

C7_Witness ==
    /\ Pivoted /\ UniqueKeys(LongRows) /\ Len(LongRows) = 3
    /\ Len(outcome.table.index) = 2 /\ Len(outcome.table.columns) = 2
    /\ outcome.table.columns = << <<Str("A"), Str("P")>>,
                                  <<Str("B"), Str("P")>> >>
    /\ outcome.table.cells[1] = <<Num(5), NaN>>
    /\ outcome.table.cells[2] = <<Num(5), Num(5)>>

\* two rows left after drop_duplicates share a key and differ in value
Conflicting(rows) ==
    \E i, j \in 1..Len(rows) :
        Key(rows[i]) = Key(rows[j]) /\ rows[i]["value"] # rows[j]["value"]

\* C8: when two rows still share (station_id, param, date) after the exact
\* duplicates are removed, the call fails and returns no table.
C8_ConflictingRowsFail ==
    (/\ Done /\ op = "get_lv_meteo_data" /\ SuccessEnvelope
     /\ data.result = "dict" /\ data.has_fields /\ RecordsOf(data) # <<>>
     /\ Conflicting(LongRows))
    => /\ outcome.kind = "raise"
       /\ outcome.table = NoTable
       /\ outcome.exc.kind \in LibraryKinds

C8_Witness ==
    /\ Done /\ op = "get_lv_meteo_data" /\ Conflicting(LongRows)
    /\ outcome.exc = RaiseFrom("APIError", 296, Exc("ValueError", 286, 0))

\* un-pivoting, as DataFrame.stack does it: one (station_id, param, date,
\* value) row per cell that is not missing
Unpivot(t) ==
    {<<t.columns[j][1], t.columns[j][2], t.index[i], t.cells[i][j]>> :
        <<i, j>> \in {x \in (1..Len(t.index)) \X (1..Len(t.columns)) :
                        ~IsNull(t.cells[x[1]][x[2]])}}
RowSet(rows) ==
    {<<rows[i]["station_id"], rows[i]["param"], rows[i]["date"],
       rows[i]["value"]>> : i \in 1..Len(rows)}

\* C9 as stated: for every typed table with unique triples, pivoting and
\* then un-pivoting recovers exactly the original row set.
C9_RoundTrip_AsClaimed ==
    (Pivoted /\ UniqueKeys(LongRows))
    => Unpivot(outcome.table) = RowSet(LongRows)

NoMissingValue(rows) == \A i \in 1..Len(rows) : ~IsNull(rows[i]["value"])

\* C9, amended: for every typed table with unique triples and no missing
\* value, pivoting and then un-pivoting recovers exactly the original row
\* set; a row whose value is missing is not recovered.
C9_RoundTrip ==
    (Pivoted /\ UniqueKeys(LongRows))
    => /\ Unpivot(outcome.table)
            = {r \in RowSet(LongRows) : ~IsNull(r[4])}
       /\ NoMissingValue(LongRows)
            => Unpivot(outcome.table) = RowSet(LongRows)

C9_Witness ==
    /\ Pivoted /\ UniqueKeys(LongRows) /\ NoMissingValue(LongRows)
    /\ Len(LongRows) = 3
    /\ Len(outcome.table.index) = 2 /\ Len(outcome.table.columns) = 2
    /\ Cardinality(Unpivot(outcome.table)) = 3

(***************************************************************************)
(* The normaliser on its own: records_to_dataframe applied to every field  *)
(* map, field metadata and records list of the domains below.              *)
(***************************************************************************)
\* field maps, friendly name -> API name.  A FieldMap is a bidirectional
\* mapping, so no two friendly names share an API name.
NormFieldMaps ==
    { <<>>,
      << <<"a", "X">> >>,
      << <<"a", "X">>, <<"b", "Y">> >>,
      << <<"X", "Y">>, <<"Y", "X">> >> }

NormFields ==
    { <<>>,
      << [id |-> "X", type |-> "numeric"], [id |-> "Y", type |-> "timestamp"] >>,
      << [id |-> "X", type |-> "text"], [id |-> "Y", type |-> "int4"] >> }

\* records over the keys X, Y, Z, each key present or not; X may be null
NormRecords ==
    UNION {{r \in [K -> {Str("5"), Null}] :
              \A k \in K : k # "X" => r[k] = Str("5")} :
           K \in SUBSET {"X", "Y", "Z"}}

InitNormalize ==
    /\ pc = "normalize"
    /\ op = "records_to_dataframe"
    /\ \E fm \in NormFieldMaps : args = [NoArgs EXCEPT !.fieldmap = <<TRUE, fm>>]
    /\ sql = ""
    /\ curl_calls = 0
    /\ http_calls = 0
    /\ \E f \in NormFields, recs \in SeqsUpTo(NormRecords, MaxNormRecords) :
         data = Envelope("true", "dict", TRUE, f, TRUE, recs)
    /\ raised = <<>>
    /\ outcome = NoOutcome

Normalize ==
    /\ pc = "normalize"
    /\ \E keepna \in BOOLEAN :
         Return(FrameTable(records_to_dataframe(args.fieldmap[2], data.fields,
                                                data.records, keepna)))
    /\ UNCHANGED <<op, args, sql, curl_calls, http_calls, data>>

NextNormalize == Normalize

SpecNormalize == InitNormalize /\ [][NextNormalize]_vars

Normalized ==
    Done /\ op = "records_to_dataframe" /\ data.records # <<>>

\* the column set of the normalised table is the field map's set of
\* friendly names
NormalizedColumnsAreMapKeys ==
    Normalized
    => Range(outcome.table.cols) = Range(DictKeys(args.fieldmap[2]))

\* C10: for every field map and every non-empty records list the
\* normalised table has exactly the field map's friendly names as its
\* columns: extra record keys are left out, and a key missing from a record
\* shows as a null cell of its column.
C10_FieldMapColumns ==
    Normalized
    => LET fm == args.fieldmap[2]
           t == outcome.table
       IN /\ Range(t.cols) = Range(DictKeys(fm))
          /\ \A i \in 1..Len(data.records), j \in 1..Len(fm) :
                fm[j][2] \notin DOMAIN data.records[i]
                => IsNull(t.rows[i][fm[j][1]])

(***************************************************************************)
(* The query builder on its own: create_lv_meteo_data_sql applied to the   *)
(* arguments drawn at the start, then applied again with the stations and  *)
(* parameters re-stated (as a scalar, as a list, as other names).          *)
(***************************************************************************)
\* longest station / parameter list handed to the query builder
MaxNames == 2

QueryStations ==
    {PyStr(x) : x \in {"", "AB", "C"}}
    \cup {PyList(l) : l \in SeqsUpTo({"AB", "C"}, MaxNames)}
    \cup {PyList(<<"">>)}

QueryParameters ==
    {PyStr(x) : x \in {"", "PQ"}}
    \cup {PyList(l) : l \in SeqsUpTo({"PQ"}, MaxNames)}

\* <<startdate, enddate>>
QueryIntervals ==
    { <<Date("naive", 0), Date("naive", 24)>>,
      <<Date("aware", 0), Date("aware", 24)>>,
      <<Date("naive", 24), Date("naive", 0)>>,
      <<Date("naive", 0), Date("aware", 24)>> }

InitQuery ==
    /\ pc = "build"
    /\ op = "create_lv_meteo_data_sql"
    /\ \E table \in {"", "T1"}, stations \in QueryStations,
          parameters \in QueryParameters, iv \in QueryIntervals :
         args = [NoArgs EXCEPT !.table = table, !.stations = stations,
                   !.parameters = parameters, !.startdate = iv[1],
                   !.enddate = iv[2]]
    /\ sql = ""
    /\ curl_calls = 0
    /\ http_calls = 0
    /\ data = NoData
    /\ raised = <<>>
    /\ outcome = NoOutcome

\* one call of create_lv_meteo_data_sql with the arguments a: the SQL it
\* returns, or the exception it raises
Build(a) ==
    LET q == create_lv_meteo_data_sql(a.table, a.stations, a.parameters,
                                      a.startdate, a.enddate)
    IN /\ args' = a
       /\ sql' = IF q.ok THEN q.val ELSE ""
       /\ outcome' = IF q.ok
                     THEN [kind |-> "return", exc |-> Exc("", 0, 0),
                           table |-> NoTable]
                     ELSE [kind |-> "raise", exc |-> q.exc, table |-> NoTable]
       /\ UNCHANGED <<op, curl_calls, http_calls, data, raised>>

Build_Sql ==
    /\ pc = "build"
    /\ pc' = "built"
    /\ Build(args)

\* a further call, same table and interval, stations and parameters re-stated
Build_Again ==
    /\ pc \in {"built", "rebuilt"}
    /\ pc' = "rebuilt"
    /\ \E stations \in QueryStations, parameters \in QueryParameters :
         Build([args EXCEPT !.stations = stations, !.parameters = parameters])

NextQuery ==
    \/ Build_Sql
    \/ Build_Again

SpecQuery == InitQuery /\ [][NextQuery]_vars

Built == pc \in {"built", "rebuilt"}
ReturnedSql == Built /\ outcome.kind = "return"

\* a scalar string read as the one-element list holding it
AsOneElementList(v) == IF v.py = "str" THEN PyList(<<v.s>>) ELSE v

\* two calls whose stations and whose parameters name the same list
SameNames(a, b) ==
    /\ AsOneElementList(a.stations) = AsOneElementList(b.stations)
    /\ AsOneElementList(a.parameters) = AsOneElementList(b.parameters)

\* the SQL text for one station s and one parameter p
OneNameSql(table, s, p, startdate, enddate) ==
    "SELECT * from \"" \o table \o "\" WHERE \"STATION_ID\" in ('" \o s
    \o "') and \"ABBREVIATION\" in ('" \o p
    \o "') and \"DATETIME\" BETWEEN '" \o IsoFormat(startdate)
    \o "' and '" \o IsoFormat(enddate) \o "'"

\* the call whose result the state holds had one station and one parameter,
\* each given as a scalar string or as a one-element list
OneName(v) == v.py = "str" \/ Len(v.items) = 1
NameOf(v) == IF v.py = "str" THEN v.s ELSE v.items[1]

\* C11: whenever create_lv_meteo_data_sql returns SQL for one station and
\* one parameter, the text quotes each name whole (a string is not split
\* into its characters), and a further call that returns SQL for the same
\* names, a scalar string standing for the one-element list holding it,
\* returns the identical SQL string.
C11_ScalarIsOneElementList ==
    /\ [](ReturnedSql /\ OneName(args.stations) /\ OneName(args.parameters)
          => sql = OneNameSql(args.table, NameOf(args.stations),
                              NameOf(args.parameters), args.startdate,
                              args.enddate))
    /\ [][ReturnedSql /\ ReturnedSql' /\ SameNames(args, args')
          => sql' = sql]_vars

C11_Witness ==
    /\ pc = "rebuilt" /\ outcome.kind = "return"
    /\ args.stations = PyList(<<"AB">>) /\ args.parameters = PyStr("PQ")
    /\ sql = "SELECT * from \"T1\" WHERE \"STATION_ID\" in ('AB') and \"ABBREVIATION\" in ('PQ') and \"DATETIME\" BETWEEN '2024-01-01T00:00:00' and '2024-01-02T00:00:00'"

(***************************************************************************)
(* The coercion on its own: records_to_dataframe_raw applied to every      *)
(* field metadata, records list and columns argument of the domains below. *)
(***************************************************************************)
\* longest records list handed to records_to_dataframe_raw
MaxRawRecords == 2

\* metadata of column X under every type tag, and none at all ("int4" is a
\* tag the server uses that is none of text, numeric, timestamp)
RawFields ==
    {<<>>}
    \cup {<< [id |-> "X", type |-> tag] >> :
            tag \in {"text", "numeric", "timestamp", "int4"}}

\* records over the keys X and Y, each present or not
RawRecords ==
    UNION {{r \in [K -> {Str("5"), Num(5), Null}] :
              "Y" \in K => r["Y"] = Str("5")} :
           K \in SUBSET {"X", "Y"}}

\* the columns argument: None, or a list of names
RawColumns == {<<FALSE, <<>> >>, <<TRUE, <<"X">> >>, <<TRUE, <<"X", "Y">> >>}

InitRaw ==
    /\ pc = "coerce"
    /\ op = "records_to_dataframe_raw"
    /\ \E columns \in RawColumns : args = [NoArgs EXCEPT !.fieldmap = columns]
    /\ sql = ""
    /\ curl_calls = 0
    /\ http_calls = 0
    /\ \E f \in RawFields, recs \in SeqsUpTo(RawRecords, MaxRawRecords) :
         data = Envelope("true", "dict", TRUE, f, TRUE, recs)
    /\ raised = <<>>
    /\ outcome = NoOutcome

Coerce_Raw ==
    /\ pc = "coerce"
    /\ \E keepna \in BOOLEAN :
         Return(FrameTable(records_to_dataframe_raw(data.fields, data.records,
                                                    args.fieldmap, keepna)))
    /\ UNCHANGED <<op, args, sql, curl_calls, http_calls, data>>

NextRaw == Coerce_Raw

SpecRaw == InitRaw /\ [][NextRaw]_vars

Coerced == Done /\ op = "records_to_dataframe_raw"

\* the table of lines 191-194, before the coercion loop
Uncoerced ==
    IF args.fieldmap[1] THEN SelectFrame(data.records, args.fieldmap[2])
    ELSE RawFrame(data.records)

\* C12: after records_to_dataframe_raw, every cell that was null before the
\* coercion, in a column declared text or absent from the field metadata,
\* is still null.
C12_TextNullsStayNull ==
    Coerced
    => \A i \in 1..Len(Uncoerced.rows), c \in Range(Uncoerced.cols) :
          (FieldType(data.fields, c) = "text" /\ IsNull(Uncoerced.rows[i][c]))
          => IsNull(outcome.table.rows[i][c])

KnownTags == {"text", "numeric", "timestamp"}

\* two cells hold the same thing: the same value, or both a missing value
SameCell(a, b) == a = b \/ (IsNull(a) /\ IsNull(b))

\* C13: after records_to_dataframe_raw, every cell of a column whose
\* declared type tag is none of text, numeric, timestamp holds what the
\* coercion of a text column gives for the same value.
C13_UnknownTagIsText ==
    Coerced
    => \E keepna \in BOOLEAN :
          \A i \in 1..Len(Uncoerced.rows), c \in Range(Uncoerced.cols) :
             FieldType(data.fields, c) \notin KnownTags
             => SameCell(outcome.table.rows[i][c],
                         Coerce("text", Uncoerced.rows[i][c], keepna))

(***************************************************************************)
(* The transport's single attempt, under Spec.                             *)
(***************************************************************************)
\* the lines inside the try of get_response_from_lv_data that can raise
TransportSites == {140, 143, 148, 152, 158}

\* the attempt of this call has failed
TransportFailed == raised # <<>> /\ raised[1].site \in TransportSites

\* C14: in every call of a public operation the endpoint is contacted at
\* most once, through curl when use_curl is set and through the HTTP
\* request otherwise, never through both; once the request is out exactly
\* one attempt has been made, and a call whose attempt has failed has ended
\* in an APIError with still that one attempt made.
C14_SingleAttempt ==
    /\ TransportCalls <= 1
    /\ curl_calls = 1 => args.use_curl
    /\ http_calls = 1 => ~args.use_curl
    /\ pc \in {"waiting", "process"} => TransportCalls = 1
    /\ TransportFailed => Done /\ Raised("APIError") /\ TransportCalls = 1

C14_Witness ==
    /\ Done /\ op = "get_lv_meteo_data" /\ args.use_curl
    /\ raised # <<>> /\ raised[1] = Exc("TimeoutExpired", 140, 0)
    /\ Raised("APIError")
    /\ curl_calls = 1 /\ http_calls = 0

====
